---- MODULE Spec2Model ----
(***************************************************************************)
(* MediBot (derm-finder-pro): the serverless request handlers              *)
(* (send-customer-email, skin-analyze, scan-medicine, explain-diagnosis,   *)
(* find-doctors) and the browser components that call them (CustomerCare,  *)
(* SkinAnalyzer, MedicineScanner, DoctorFinder).                           *)
(*                                                                         *)
(* SpecHandlers : one request at a time through one of the handlers        *)
(* SpecCare     : the CustomerCare widget (user actions, timers, invoke)   *)
(* SpecBrowser  : SkinAnalyzer (two-step) and MedicineScanner              *)
(* SpecDoctors  : the doctor-record formatters of find-doctors and         *)
(*                DoctorFinder                                             *)
(***************************************************************************)
EXTENDS Integers, Sequences, FiniteSets, TLC

VARIABLES
    \* ---- serverless handlers
    env,        \* Deno.env: which API keys are configured
    handler,    \* the handler serving the current request ("none" when idle)
    req,        \* the current request
    pc,         \* "idle" | "fetch" (awaiting the outbound call) | "done"
    outbound,   \* outbound HTTP requests issued for the current request
    upstream,   \* what the outbound call came back with
    responses,  \* the responses returned for the current request
    served,     \* the number of requests handled earlier
    call,       \* the outbound request issued for the current request
    \* ---- CustomerCare
    care,       \* the widget's React state
    timers,     \* pending setTimeout callbacks
    invokes,    \* send-customer-email invocations in flight
    sent,       \* issues of the invocations made so far
    \* ---- SkinAnalyzer / MedicineScanner
    skin,       \* SkinAnalyzer's React state
    runs,       \* handleAnalyze calls awaiting a response
    asks,       \* askQuestion calls awaiting a response
    med,        \* MedicineScanner's React state
    medRuns,    \* analyzeMedicine calls awaiting a response
    page,       \* the route shown: "/" (Index) or "/medicine-scanner"
    \* ---- doctor records
    place,      \* an upstream record given to a formatter
    doctor      \* the doctor record last built from it

handlerVars == <<env, handler, req, pc, outbound, upstream, responses, served, call>>
careVars == <<care, timers, invokes, sent>>
browserVars == <<skin, runs, asks, med, medRuns, page>>
doctorVars == <<place, doctor>>
vars == <<handlerVars, careVars, browserVars, doctorVars>>

\* each component leaves the state of the others alone
OnlyHandlers == UNCHANGED <<careVars, browserVars, doctorVars>>
OnlyCare == UNCHANGED <<handlerVars, browserVars, doctorVars>>
OnlyBrowser == UNCHANGED <<handlerVars, careVars, doctorVars>>
OnlyDoctors == UNCHANGED <<handlerVars, careVars, browserVars>>

(***************************************************************************)
(* JavaScript values.  A value is tagged with its type; Undef is a missing *)
(* member or `undefined`.                                                  *)
(***************************************************************************)
Undef == [t |-> "undefined"]
Null == [t |-> "null"]
Str(s) == [t |-> "string", v |-> s]
Num(n) == [t |-> "number", v |-> n]
Bool(b) == [t |-> "boolean", v |-> b]
Obj(f) == [t |-> "object", v |-> f]
List(s) == [t |-> "array", v |-> s]
File == [t |-> "File"]

\* JavaScript truthiness: undefined, null, "", 0 and false are falsy.
Truthy(x) ==
    CASE x.t = "undefined" -> FALSE
      [] x.t = "null" -> FALSE
      [] x.t = "string" -> x.v # ""
      [] x.t = "number" -> x.v # 0
      [] x.t = "boolean" -> x.v
      [] OTHER -> TRUE

\* a || b
Or(a, b) == IF Truthy(a) THEN a ELSE b

\* obj.key (undefined when the member is missing)
Get(o, k) == IF o.t = "object" /\ k \in DOMAIN o.v THEN o.v[k] ELSE Undef

\* String.prototype.trim on the strings of the model (" " is a blank string)
Trim(s) == IF s = " " THEN "" ELSE s

\* JSON.stringify of an object literal, read back by the client: members
\* whose value is undefined are dropped.
JSONstringify(x) ==
    IF x.t = "object"
    THEN Obj([k \in {j \in DOMAIN x.v : x.v[j].t # "undefined"} |-> x.v[k]])
    ELSE x

\* new Response(null, ...)
NoBody == [t |-> "nobody"]

(***************************************************************************)
(* Steps of a handler: it returns a response, issues its fetch, or throws. *)
(***************************************************************************)
Respond(status, headers, body) ==
    [kind |-> "respond", status |-> status, headers |-> headers, body |-> body]
FetchWith(url, body) == [kind |-> "fetch", url |-> url, body |-> body]
Fetch(url) == FetchWith(url, Undef)
NoCall == [url |-> "", body |-> Undef]
Throw(message) == [kind |-> "throw", message |-> message]

Ok(status) == status >= 200 /\ status <= 299

ContentTypeJson == "Content-Type" :> "application/json"

\* scan-medicine, explain-diagnosis, find-doctors, send-customer-email
corsHeaders ==
    ("Access-Control-Allow-Origin" :> "*")
    @@ ("Access-Control-Allow-Headers" :> "authorization, x-client-info, apikey, content-type")

\* explain-diagnosis adds Access-Control-Allow-Methods
corsHeadersWithMethods ==
    corsHeaders @@ ("Access-Control-Allow-Methods" :> "POST, OPTIONS")

\* { ...corsHeaders, "Content-Type": "application/json" }
JsonCors == ContentTypeJson @@ corsHeaders

(***************************************************************************)
(* Requests.  A request has a method, an Origin header (Null when the      *)
(* header is missing) and a body; bodyOk is FALSE when req.json() or       *)
(* req.formData() rejects (no body, malformed JSON, JSON null).            *)
(***************************************************************************)
Methods == {"OPTIONS", "POST", "PUT"}
Origins == {Null, Str("https://medibot.app")}

EmailBodies ==
    {Obj(("email" :> e) @@ ("issue" :> i)) :
        e \in {Undef, Str(""), Str("user@example.com")},
        i \in {Undef, Str(""), Str("upload fails")}}

SkinForms ==
    {Obj(("file" :> f) @@ ("symptoms" :> s)) :
        f \in {Null, Str("not a file"), File},
        s \in {Null, Str(" "), Str("itchy rash")}}

MedicineBodies ==
    {Obj("image" :> i) : i \in {Undef, Str(""), Str("data:image/jpeg;base64,AAAA")}}

ExplainBodies ==
    {Obj(("disease" :> d) @@ ("question" :> q)) :
        d \in {Undef, Str(""), Str("Eczema")},
        q \in {Undef, Str(""), Str("Is it contagious?")}}

NpiBodies ==
    {Obj(("zipCode" :> z) @@ ("city" :> c)) :
        z \in {Undef, Str(""), Str("10001")},
        c \in {Undef, Str(""), Str("Pune")}}

ApifyBodies ==
    {Obj(("pinCode" :> z) @@ ("city" :> c)) :
        z \in {Undef, Str(""), Str("411001")},
        c \in {Undef, Str(""), Str("Pune")}}

Requests(bodies) ==
    {[method |-> "OPTIONS", origin |-> o, bodyOk |-> FALSE, body |-> Undef] : o \in Origins}
    \cup {[method |-> m, origin |-> o, bodyOk |-> FALSE, body |-> Undef] :
            m \in {"POST", "PUT"}, o \in Origins}
    \cup {[method |-> m, origin |-> o, bodyOk |-> TRUE, body |-> b] :
            m \in {"POST", "PUT"}, o \in Origins, b \in bodies}

NoRequest == [method |-> "none", origin |-> Null, bodyOk |-> FALSE, body |-> Undef]

KeyNames == {"RESEND_API_KEY", "LOVABLE_API_KEY", "APIFY_API_KEY"}
Envs == [KeyNames -> {Undef, Str("secret")}]

(***************************************************************************)
(* What an outbound call comes back with: the fetch rejects (net "fail"),  *)
(* or a response with a status and a body.  InvalidJson is a body whose    *)
(* .json() rejects.                                                        *)
(***************************************************************************)
InvalidJson == [t |-> "invalid-json"]
NetFail == [net |-> "fail", status |-> 0, body |-> Undef]
NoUpstream == [net |-> "none", status |-> 0, body |-> Undef]
Replied(status, body) == [net |-> "ok", status |-> status, body |-> body]

ErrorStatuses == {402, 429, 500, 503}

\* choices[0].message.content of a chat-completions payload
Contents ==
    {Undef, Str(""), Num(5), Str("It looks like eczema."), Str("null"),
     Str("{\"condition\":\"Eczema\",\"confidence\":\"87\"}"),
     Str("{\"condition\":\"Eczema\",\"confidence\":\"high\"}"),
     Str("{\"condition\":\"Eczema\",\"confidence\":\"\"}"),
     Str("{\"answer\":\"Yes\"}"),
     Str("{\"explanation\":\"Eczema is ...\"}")}

Payload(content) ==
    Obj("choices" :> List(<<Obj("message" :> Obj("content" :> content))>>))

GatewayOutcomes ==
    {NetFail}
    \cup {Replied(s, Str("upstream error")) : s \in ErrorStatuses}
    \cup {Replied(200, b) : b \in {InvalidJson, Null, Obj(<<>>)} \cup {Payload(c) : c \in Contents}}

ResendOutcomes ==
    {NetFail}
    \cup {Replied(s, b) :
            s \in {200} \cup ErrorStatuses,
            b \in {InvalidJson, Null, Obj("id" :> Str("e1")),
                   Obj("message" :> Str("Invalid API key"))}}

\* payload?.choices?.[0]?.message?.content
ContentOf(payload) ==
    LET choices == Get(payload, "choices")
    IN  IF choices.t = "array" /\ Len(choices.v) > 0
        THEN Get(Get(choices.v[1], "message"), "content")
        ELSE Undef

\* JSON.parse on the content strings of the model; InvalidJson when it throws
JSONparse(text) ==
    CASE text = "null" -> Null
      [] text = "{\"condition\":\"Eczema\",\"confidence\":\"87\"}" ->
            Obj(("condition" :> Str("Eczema")) @@ ("confidence" :> Str("87")))
      [] text = "{\"condition\":\"Eczema\",\"confidence\":\"high\"}" ->
            Obj(("condition" :> Str("Eczema")) @@ ("confidence" :> Str("high")))
      [] text = "{\"condition\":\"Eczema\",\"confidence\":\"\"}" ->
            Obj(("condition" :> Str("Eczema")) @@ ("confidence" :> Str("")))
      [] text = "{\"answer\":\"Yes\"}" -> Obj("answer" :> Str("Yes"))
      [] text = "{\"explanation\":\"Eczema is ...\"}" ->
            Obj("explanation" :> Str("Eczema is ..."))
      [] OTHER -> InvalidJson

\* Number(string) on the strings of the model; NaN when it is not numeric
NaN == [t |-> "NaN"]
ToNumber(s) ==
    CASE s = "87" -> Num(87)
      [] s = "" -> Num(0)
      [] OTHER -> NaN

(***************************************************************************)
(* send-customer-email (both revisions have the same control flow)         *)
(***************************************************************************)
\* try block up to the fetch: parse the body, read the key
SendCustomerEmailTry(r, e) ==
    IF ~r.bodyOk THEN Throw("Unexpected end of JSON input")
    ELSE IF ~Truthy(e["RESEND_API_KEY"]) THEN Throw("RESEND_API_KEY not configured")
    ELSE Fetch("https://api.resend.com/emails")

\* try block after the fetch: read the reply, throw unless it is OK
SendCustomerEmailAfterFetch(r, u) ==
    IF u.net = "fail" THEN Throw("error sending request")
    ELSE IF u.body = InvalidJson THEN Throw("Unexpected token in JSON")
    ELSE IF ~Ok(u.status)
         THEN IF u.body.t # "object"
              THEN Throw("Cannot read properties of null (reading 'message')")
              ELSE Throw(Or(Get(u.body, "message"), Str("Failed to send email")).v)
    ELSE Respond(200, corsHeaders @@ ContentTypeJson,
                 JSONstringify(Obj(("success" :> Bool(TRUE)) @@ ("data" :> u.body))))

\* a variant that reports the failure under `message` instead of `error`
SendCustomerEmailCatchAsMessage(r, step) ==
    IF step.kind = "throw"
    THEN Respond(500, corsHeaders @@ ContentTypeJson,
                 JSONstringify(Obj("message" :> Str(step.message))))
    ELSE step

\* catch (error): 500 with { error: error.message }
SendCustomerEmailCatch(r, step) ==
    IF step.kind = "throw"
    THEN Respond(500, corsHeaders @@ ContentTypeJson,
                 JSONstringify(Obj("error" :> Str(step.message))))
    ELSE step

SendCustomerEmail(r, e) ==
    IF r.method = "OPTIONS"
    THEN Respond(200, corsHeaders, NoBody)
    ELSE SendCustomerEmailCatch(r, SendCustomerEmailTry(r, e))

(***************************************************************************)
(* skin-analyze                                                            *)
(***************************************************************************)
baseCorsHeaders ==
    ("Access-Control-Allow-Origin" :> "*")
    @@ ("Access-Control-Allow-Headers" :> "authorization, x-client-info, apikey, content-type")
    @@ ("Access-Control-Allow-Methods" :> "POST, OPTIONS")

\* a variant that forgets to spread the CORS headers
withCorsOnlyExtra(r, extraHeaders) == extraHeaders

\* { ...baseCorsHeaders, "Access-Control-Allow-Origin": origin, ...extraHeaders }
withCors(r, extraHeaders) ==
    LET origin == IF r.origin.t \in {"null", "undefined"} THEN "*" ELSE r.origin.v
    IN  extraHeaders @@ ("Access-Control-Allow-Origin" :> origin) @@ baseCorsHeaders

SkinError(r, status, message) ==
    Respond(status, withCors(r, ContentTypeJson), JSONstringify(Obj("error" :> Str(message))))

\* Light normalization: a numeric confidence string becomes the number
NormalizeConfidence(result) ==
    LET c == Get(result, "confidence")
    IN  IF c.t = "string" /\ ToNumber(c.v) # NaN
        THEN Obj(("confidence" :> ToNumber(c.v)) @@ result.v)
        ELSE result

SkinAnalyzeTry(r, e) ==
    IF ~Truthy(e["LOVABLE_API_KEY"]) THEN SkinError(r, 500, "AI configuration error")
    ELSE IF ~r.bodyOk THEN Throw("Content-Type was not one of multipart/form-data")
    ELSE LET file == Get(r.body, "file")
             raw == Get(r.body, "symptoms")
             symptoms == IF raw.t \in {"null", "undefined"} THEN "" ELSE Trim(raw.v)
         IN  IF ~Truthy(file) \/ file.t # "File" THEN SkinError(r, 400, "Image file is required")
             ELSE IF symptoms = "" THEN SkinError(r, 400, "Symptoms are required")
             ELSE Fetch("https://ai.gateway.lovable.dev/v1/chat/completions")

\* a variant that issues the call again when the gateway does not answer OK
SkinAnalyzeAfterFetchRetrying(r, u) ==
    IF u.net = "fail" \/ ~Ok(u.status)
    THEN Fetch("https://ai.gateway.lovable.dev/v1/chat/completions")
    ELSE SkinError(r, 502, "Invalid analysis response")

SkinAnalyzeAfterFetch(r, u) ==
    IF u.net = "fail" THEN Throw("error sending request")
    ELSE IF ~Ok(u.status) THEN SkinError(r, 502, "Analysis service error")
    ELSE IF u.body = InvalidJson THEN Throw("Unexpected token in JSON")
    ELSE LET content == ContentOf(u.body)
         IN  IF ~Truthy(content) \/ content.t # "string"
             THEN SkinError(r, 502, "Invalid analysis response")
             ELSE LET result == JSONparse(content.v)
                  IN  IF result = InvalidJson THEN SkinError(r, 502, "Invalid analysis JSON")
                      ELSE IF result.t = "null"
                           THEN Throw("Cannot read properties of null (reading 'confidence')")
                      ELSE Respond(200, withCors(r, ContentTypeJson),
                                   JSONstringify(NormalizeConfidence(result)))

SkinAnalyzeCatch(r, step) ==
    IF step.kind = "throw" THEN SkinError(r, 500, "Unknown error") ELSE step

SkinAnalyze(r, e) ==
    IF r.method = "OPTIONS" THEN Respond(200, withCors(r, <<>>), NoBody)
    ELSE IF r.method # "POST" THEN SkinError(r, 405, "Method not allowed")
    ELSE SkinAnalyzeCatch(r, SkinAnalyzeTry(r, e))

(***************************************************************************)
(* scan-medicine                                                           *)
(***************************************************************************)
JsonError(status, message) ==
    Respond(status, ContentTypeJson @@ corsHeaders, JSONstringify(Obj("error" :> Str(message))))

ScanMedicineTry(r, e) ==
    IF ~r.bodyOk THEN Throw("Unexpected end of JSON input")
    ELSE IF ~Truthy(Get(r.body, "image")) THEN JsonError(400, "No image provided")
    ELSE IF ~Truthy(e["LOVABLE_API_KEY"]) THEN Throw("LOVABLE_API_KEY is not configured")
    ELSE Fetch("https://ai.gateway.lovable.dev/v1/chat/completions")

\* a variant that passes every upstream error status through
ScanMedicineAfterFetchPassingStatus(r, u) ==
    IF u.net = "fail" THEN Throw("error sending request")
    ELSE IF ~Ok(u.status) THEN JsonError(u.status, "Upstream error")
    ELSE Respond(200, ContentTypeJson @@ corsHeaders,
                 JSONstringify(Obj("result" :> ContentOf(u.body))))

ScanMedicineAfterFetch(r, u) ==
    IF u.net = "fail" THEN Throw("error sending request")
    ELSE IF ~Ok(u.status)
         THEN IF u.status = 429
              THEN JsonError(429, "Rate limit exceeded. Please try again later.")
              ELSE Throw("API error: " \o ToString(u.status))
    ELSE IF u.body = InvalidJson THEN Throw("Unexpected token in JSON")
    ELSE IF u.body.t = "null" THEN Throw("Cannot read properties of null (reading 'choices')")
    ELSE Respond(200, ContentTypeJson @@ corsHeaders,
                 JSONstringify(Obj("result" :> ContentOf(u.body))))

ScanMedicineCatch(r, step) ==
    IF step.kind = "throw" THEN JsonError(500, step.message) ELSE step

ScanMedicine(r, e) ==
    IF r.method = "OPTIONS" THEN Respond(200, corsHeaders, NoBody)
    ELSE ScanMedicineCatch(r, ScanMedicineTry(r, e))

(***************************************************************************)
(* explain-diagnosis                                                       *)
(***************************************************************************)
ExplainError(status, message) ==
    Respond(status, ContentTypeJson @@ corsHeadersWithMethods,
            JSONstringify(Obj("error" :> Str(message))))

\* a variant that asks for a JSON object in Q&A mode too
ExplainRequestBodyAlwaysJson(r) ==
    Obj(("model" :> Str("google/gemini-2.5-flash"))
        @@ ("response_format" :> Obj("type" :> Str("json_object"))))

\* the chat-completions request body: response_format only without a question
ExplainRequestBody(r) ==
    IF Truthy(Get(r.body, "question"))
    THEN Obj("model" :> Str("google/gemini-2.5-flash"))
    ELSE Obj(("model" :> Str("google/gemini-2.5-flash"))
             @@ ("response_format" :> Obj("type" :> Str("json_object"))))

ExplainDiagnosisTry(r, e) ==
    IF ~Truthy(e["LOVABLE_API_KEY"]) THEN ExplainError(500, "AI configuration error")
    ELSE IF ~r.bodyOk THEN Throw("Unexpected end of JSON input")
    ELSE IF ~Truthy(Get(r.body, "disease")) THEN ExplainError(400, "Disease name is required")
    ELSE FetchWith("https://ai.gateway.lovable.dev/v1/chat/completions",
                   ExplainRequestBody(r))

\* a variant that treats content that is not JSON as an invalid reply
ExplainDiagnosisAfterFetchStrict(r, u) ==
    IF u.net = "fail" THEN Throw("error sending request")
    ELSE IF ~Ok(u.status)
         THEN IF u.status = 429
              THEN ExplainError(429, "Rate limit exceeded. Please try again later.")
              ELSE IF u.status = 402
              THEN ExplainError(402, "AI credits exhausted. Please add credits.")
              ELSE ExplainError(502, "AI explanation service error")
    ELSE IF u.body = InvalidJson THEN Throw("Unexpected token in JSON")
    ELSE LET content == ContentOf(u.body)
         IN  IF ~Truthy(content) \/ content.t # "string"
             THEN ExplainError(502, "Invalid AI response")
             ELSE IF Truthy(Get(r.body, "question"))
             THEN Respond(200, ContentTypeJson @@ corsHeadersWithMethods,
                          JSONstringify(Obj("answer" :> content)))
             ELSE LET result == JSONparse(content.v)
                  IN  IF result # InvalidJson
                      THEN Respond(200, ContentTypeJson @@ corsHeadersWithMethods,
                                   JSONstringify(result))
                      ELSE ExplainError(502, "Invalid AI response")

ExplainDiagnosisAfterFetch(r, u) ==
    IF u.net = "fail" THEN Throw("error sending request")
    ELSE IF ~Ok(u.status)
         THEN IF u.status = 429
              THEN ExplainError(429, "Rate limit exceeded. Please try again later.")
              ELSE IF u.status = 402
              THEN ExplainError(402, "AI credits exhausted. Please add credits.")
              ELSE ExplainError(502, "AI explanation service error")
    ELSE IF u.body = InvalidJson THEN Throw("Unexpected token in JSON")
    ELSE LET content == ContentOf(u.body)
         IN  IF ~Truthy(content) \/ content.t # "string"
             THEN ExplainError(502, "Invalid AI response")
             ELSE IF Truthy(Get(r.body, "question"))
             THEN Respond(200, ContentTypeJson @@ corsHeadersWithMethods,
                          JSONstringify(Obj("answer" :> content)))
             ELSE LET result == JSONparse(content.v)
                  IN  IF result # InvalidJson
                      THEN Respond(200, ContentTypeJson @@ corsHeadersWithMethods,
                                   JSONstringify(result))
                      ELSE Respond(200, ContentTypeJson @@ corsHeadersWithMethods,
                                   JSONstringify(Obj(
                                       ("explanation" :> content)
                                       @@ ("recommendations" :> List(<<>>))
                                       @@ ("causes" :> List(<<>>))
                                       @@ ("precautions" :> List(<<>>))
                                       @@ ("severity" :> Str("Unknown"))
                                       @@ ("suggestedDoctor" :> Str("Dermatologist")))))

ExplainDiagnosisCatch(r, step) ==
    IF step.kind = "throw" THEN ExplainError(500, "Unknown error occurred") ELSE step

ExplainDiagnosis(r, e) ==
    IF r.method = "OPTIONS" THEN Respond(200, corsHeadersWithMethods, NoBody)
    ELSE IF r.method # "POST" THEN ExplainError(405, "Method not allowed")
    ELSE ExplainDiagnosisCatch(r, ExplainDiagnosisTry(r, e))

(***************************************************************************)
(* Doctor records: find-doctors (Apify, two revisions; NPI) and the        *)
(* DoctorFinder client.                                                    *)
(***************************************************************************)
\* results.slice(0, 5)
MaxPlaces == 5
Slice(s, n) == SubSeq(s, 1, IF Len(s) < n THEN Len(s) ELSE n)

\* s.substring(0, 5) on the postal codes of the model
Substring5(s) == IF s = "100011234" THEN "10001" ELSE s

\* a variant whose name has no "Unknown" fallback
ApifyDoctorNoFallback(p, city) ==
    LET location == Get(p, "location")
        url == Get(p, "url")
        placeId == Get(p, "placeId")
        lat == Get(location, "lat")
        lng == Get(location, "lng")
        googleMapsLink ==
            IF Truthy(url) /\ url.t = "string" THEN url
            ELSE IF Truthy(placeId)
                 THEN Str("https://www.google.com/maps/place/?q=place_id:" \o placeId.v)
            ELSE IF Truthy(lat) /\ Truthy(lng)
                 THEN Str("https://www.google.com/maps?q=" \o lat.v \o "," \o lng.v)
            ELSE Null
    IN  Obj(("name" :> Or(Get(p, "title"), Get(p, "name")))
         @@ ("specialty" :> Str("Dermatologist"))
         @@ ("address" :> Or(Get(p, "address"), Or(Get(p, "street"),
                             Or(Get(location, "address"), Str("Address not available")))))
         @@ ("city" :> Or(Get(p, "city"), Or(Get(location, "city"), Or(city, Str("")))))
         @@ ("phone" :> Or(Get(p, "phone"), Or(Get(p, "phoneUnformatted"),
                           Or(Get(p, "telephone"), Null))))
         @@ ("googleMapsLink" :> googleMapsLink)
         @@ ("rating" :> Or(Get(p, "totalScore"), Or(Get(p, "rating"),
                            Or(Get(p, "stars"), Null))))
         @@ ("reviewCount" :> Or(Get(p, "reviewsCount"), Or(Get(p, "reviews"),
                                 Or(Get(p, "userRatingsTotal"), Null))))
         @@ ("workingHours" :> Or(Get(p, "openingHours"), Or(Get(p, "workHours"),
                                  Or(Get(p, "hours"), Null)))))

\* find-doctors (Apify), first revision: one place of the scraper's reply
ApifyDoctor(p, city) ==
    LET location == Get(p, "location")
        url == Get(p, "url")
        placeId == Get(p, "placeId")
        lat == Get(location, "lat")
        lng == Get(location, "lng")
        googleMapsLink ==
            IF Truthy(url) /\ url.t = "string" THEN url
            ELSE IF Truthy(placeId)
                 THEN Str("https://www.google.com/maps/place/?q=place_id:" \o placeId.v)
            ELSE IF Truthy(lat) /\ Truthy(lng)
                 THEN Str("https://www.google.com/maps?q=" \o lat.v \o "," \o lng.v)
            ELSE Null
    IN  Obj(("name" :> Or(Get(p, "title"), Or(Get(p, "name"), Str("Unknown"))))
         @@ ("specialty" :> Str("Dermatologist"))
         @@ ("address" :> Or(Get(p, "address"), Or(Get(p, "street"),
                             Or(Get(location, "address"), Str("Address not available")))))
         @@ ("city" :> Or(Get(p, "city"), Or(Get(location, "city"), Or(city, Str("")))))
         @@ ("phone" :> Or(Get(p, "phone"), Or(Get(p, "phoneUnformatted"),
                           Or(Get(p, "telephone"), Null))))
         @@ ("googleMapsLink" :> googleMapsLink)
         @@ ("rating" :> Or(Get(p, "totalScore"), Or(Get(p, "rating"),
                            Or(Get(p, "stars"), Null))))
         @@ ("reviewCount" :> Or(Get(p, "reviewsCount"), Or(Get(p, "reviews"),
                                 Or(Get(p, "userRatingsTotal"), Null))))
         @@ ("workingHours" :> Or(Get(p, "openingHours"), Or(Get(p, "workHours"),
                                  Or(Get(p, "hours"), Null)))))

\* find-doctors (Apify), second revision
ApifyDoctorV2(p, city) ==
    Obj(("name" :> Or(Get(p, "title"), Or(Get(p, "name"), Str("Unknown"))))
     @@ ("specialty" :> Str("Dermatologist"))
     @@ ("address" :> Or(Get(p, "address"), Or(Get(p, "street"), Str("Address not available"))))
     @@ ("city" :> Or(Get(p, "city"), Or(city, Str(""))))
     @@ ("phone" :> Or(Get(p, "phone"), Or(Get(p, "phoneUnformatted"), Null)))
     @@ ("googleMapsLink" :> Or(Get(p, "url"), Or(Get(p, "googleMapsUri"), Null)))
     @@ ("rating" :> Or(Get(p, "totalScore"), Or(Get(p, "rating"), Null)))
     @@ ("reviewCount" :> Or(Get(p, "reviewsCount"), Or(Get(p, "reviews"), Null)))
     @@ ("workingHours" :> Or(Get(p, "openingHours"), Or(Get(p, "workHours"), Null))))

\* result.addresses?.find(a => a.address_purpose === "LOCATION") || result.addresses?.[0] || {}
NpiAddress(result) ==
    LET addresses == Get(result, "addresses")
        n == IF addresses.t = "array" THEN Len(addresses.v) ELSE 0
        hits == {i \in 1..n : Get(addresses.v[i], "address_purpose") = Str("LOCATION")}
    IN  IF hits # {} THEN addresses.v[CHOOSE i \in hits : \A j \in hits : i <= j]
        ELSE IF n > 0 /\ Truthy(addresses.v[1]) THEN addresses.v[1]
        ELSE Obj(<<>>)

\* find-doctors (NPI): one provider of the registry's reply
NpiDoctor(result) ==
    LET basic == Or(Get(result, "basic"), Obj(<<>>))
        address == NpiAddress(result)
        taxonomies == Get(result, "taxonomies")
        desc == IF taxonomies.t = "array" /\ Len(taxonomies.v) > 0
                THEN Get(taxonomies.v[1], "desc") ELSE Undef
        firstName == Or(Get(basic, "first_name"), Str(""))
        lastName == Or(Get(basic, "last_name"), Str(""))
        credential == Or(Get(basic, "credential"), Str(""))
        postal == Get(address, "postal_code")
        zip == IF postal.t = "string" THEN Str(Substring5(postal.v)) ELSE Undef
    IN  Obj(("name" :> Str("Dr. " \o firstName.v \o " " \o lastName.v
                           \o (IF Truthy(credential) THEN ", " \o credential.v ELSE "")))
         @@ ("specialty" :> Or(desc, Str("Dermatology")))
         @@ ("address" :> Or(Get(address, "address_1"), Str("Address not available")))
         @@ ("city" :> Or(Get(address, "city"), Str("")))
         @@ ("state" :> Or(Get(address, "state"), Str("")))
         @@ ("zip" :> Or(zip, Str("")))
         @@ ("phone" :> Or(Get(address, "telephone_number"), Str("Not available"))))

\* DoctorFinder.searchDoctors: the same mapping, done in the browser
DoctorFinderDoctor(result) ==
    LET basic == Or(Get(result, "basic"), Obj(<<>>))
        address == NpiAddress(result)
        taxonomies == Get(result, "taxonomies")
        desc == IF taxonomies.t = "array" /\ Len(taxonomies.v) > 0
                THEN Get(taxonomies.v[1], "desc") ELSE Undef
        firstName == Or(Get(basic, "first_name"), Str(""))
        lastName == Or(Get(basic, "last_name"), Str(""))
        credential == Or(Get(basic, "credential"), Str(""))
        postal == Get(address, "postal_code")
        zip == IF postal.t = "string" THEN Str(Substring5(postal.v)) ELSE Undef
    IN  Obj(("name" :> Str("Dr. " \o firstName.v \o " " \o lastName.v
                           \o (IF Truthy(credential) THEN ", " \o credential.v ELSE "")))
         @@ ("specialty" :> Or(desc, Str("Dermatology")))
         @@ ("address" :> Or(Get(address, "address_1"), Str("Address not available")))
         @@ ("city" :> Or(Get(address, "city"), Str("")))
         @@ ("state" :> Or(Get(address, "state"), Str("")))
         @@ ("zip" :> Or(zip, Str("")))
         @@ ("phone" :> Or(Get(address, "telephone_number"), Str("Not available"))))

\* doctors.push(...) for each element of a list
RECURSIVE MapApify(_, _)
MapApify(s, city) ==
    IF s = <<>> THEN <<>> ELSE <<ApifyDoctor(Head(s), city)>> \o MapApify(Tail(s), city)

RECURSIVE MapNpi(_)
MapNpi(s) == IF s = <<>> THEN <<>> ELSE <<NpiDoctor(Head(s))>> \o MapNpi(Tail(s))

(***************************************************************************)
(* find-doctors (NPI registry) and find-doctors (Apify)                    *)
(***************************************************************************)
SamplePlace ==
    Obj(("title" :> Str("Skin Clinic")) @@ ("address" :> Str("MG Road")))
SampleProvider ==
    Obj("basic" :> Obj(("first_name" :> Str("Asha")) @@ ("last_name" :> Str("Rao"))))

ApifyOutcomes ==
    {NetFail}
    \cup {Replied(s, Str("upstream error")) : s \in ErrorStatuses}
    \cup {Replied(200, b) : b \in {InvalidJson, Null, List(<<>>), List(<<SamplePlace>>)}}

NpiOutcomes ==
    {NetFail}
    \cup {Replied(s, Str("upstream error")) : s \in ErrorStatuses}
    \cup {Replied(200, b) :
            b \in {InvalidJson, Null, Obj(<<>>), Obj("results" :> List(<<>>)),
                   Obj("results" :> List(<<SampleProvider>>))}}

FindDoctorsNpiTry(r, e) ==
    IF ~r.bodyOk THEN Throw("Unexpected end of JSON input")
    ELSE IF ~Truthy(Get(r.body, "zipCode")) /\ ~Truthy(Get(r.body, "city"))
         THEN JsonError(400, "Please provide a zip code or city")
    ELSE Fetch("https://npiregistry.cms.hhs.gov/api/")

FindDoctorsNpiAfterFetch(r, u) ==
    IF u.net = "fail" THEN Throw("error sending request")
    ELSE IF ~Ok(u.status) THEN Throw("Failed to fetch from NPI Registry")
    ELSE IF u.body = InvalidJson THEN Throw("Unexpected token in JSON")
    ELSE IF u.body.t = "null" THEN Throw("Cannot read properties of null (reading 'results')")
    ELSE LET results == Get(u.body, "results")
             doctors == IF results.t = "array" /\ Len(results.v) > 0
                        THEN MapNpi(results.v) ELSE <<>>
         IN  Respond(200, ContentTypeJson @@ corsHeaders,
                     JSONstringify(Obj("doctors" :> List(doctors))))

FindDoctorsNpiCatch(r, step) ==
    IF step.kind = "throw" THEN JsonError(500, step.message) ELSE step

FindDoctorsNpi(r, e) ==
    IF r.method = "OPTIONS" THEN Respond(200, corsHeaders, NoBody)
    ELSE FindDoctorsNpiCatch(r, FindDoctorsNpiTry(r, e))

FindDoctorsApifyTry(r, e) ==
    IF ~r.bodyOk THEN Throw("Unexpected end of JSON input")
    ELSE IF ~Truthy(Get(r.body, "pinCode")) /\ ~Truthy(Get(r.body, "city"))
         THEN JsonError(400, "Please provide a pin code or city")
    ELSE IF ~Truthy(e["APIFY_API_KEY"]) THEN JsonError(500, "API configuration error")
    ELSE Fetch("https://api.apify.com/v2/acts/compass~crawler-google-places/run-sync-get-dataset-items")

FindDoctorsApifyAfterFetch(r, u) ==
    IF u.net = "fail" THEN Throw("error sending request")
    ELSE IF ~Ok(u.status) THEN Throw("Failed to fetch from Apify")
    ELSE IF u.body = InvalidJson THEN Throw("Unexpected token in JSON")
    ELSE LET doctors == IF u.body.t = "array" /\ Len(u.body.v) > 0
                        THEN MapApify(Slice(u.body.v, MaxPlaces), Get(r.body, "city"))
                        ELSE <<>>
         IN  Respond(200, ContentTypeJson @@ corsHeaders,
                     JSONstringify(Obj("doctors" :> List(doctors))))

FindDoctorsApifyCatch(r, step) ==
    IF step.kind = "throw" THEN JsonError(500, step.message) ELSE step

FindDoctorsApify(r, e) ==
    IF r.method = "OPTIONS" THEN Respond(200, corsHeaders, NoBody)
    ELSE FindDoctorsApifyCatch(r, FindDoctorsApifyTry(r, e))

(***************************************************************************)
(* Serving one request: the handler runs to its response or to its fetch;  *)
(* when the fetch settles it runs on to its response.                      *)
(***************************************************************************)
Handlers ==
    {"send-customer-email", "skin-analyze", "scan-medicine", "explain-diagnosis",
     "find-doctors-npi", "find-doctors-apify"}

Take(step) ==
    IF step.kind = "fetch"
    THEN /\ pc' = "fetch"
         /\ outbound' = outbound + 1
         /\ call' = [url |-> step.url, body |-> step.body]
         /\ responses' = responses
    ELSE /\ pc' = "done"
         /\ outbound' = outbound
         /\ call' = call
         /\ responses' = Append(responses,
                [status |-> step.status, headers |-> step.headers, body |-> step.body])

Begin(h, r, step) ==
    /\ handler' = h
    /\ req' = r
    /\ upstream' = NoUpstream
    /\ Take(step)
    /\ UNCHANGED <<env, served>>
    /\ OnlyHandlers

Settle(h, u, step) ==
    /\ handler = h
    /\ upstream' = u
    /\ Take(step)
    /\ UNCHANGED <<env, handler, req, served>>
    /\ OnlyHandlers

ServeSendCustomerEmail ==
    /\ pc = "idle"
    /\ \E r \in Requests(EmailBodies) :
        Begin("send-customer-email", r, SendCustomerEmail(r, env))
SettleSendCustomerEmail ==
    /\ pc = "fetch"
    /\ \E u \in ResendOutcomes :
        Settle("send-customer-email", u,
               SendCustomerEmailCatch(req, SendCustomerEmailAfterFetch(req, u)))

\* a variant of skin-analyze that counts its requests in a module-level
\* variable and turns away every request after the first
ServeSkinAnalyzeCounting ==
    /\ pc = "idle"
    /\ \E r \in Requests(SkinForms) :
        Begin("skin-analyze", r,
              IF served > 0 /\ r.method = "POST"
              THEN SkinError(r, 429, "Too many requests")
              ELSE SkinAnalyze(r, env))

ServeSkinAnalyze ==
    /\ pc = "idle"
    /\ \E r \in Requests(SkinForms) :
        Begin("skin-analyze", r, SkinAnalyze(r, env))
SettleSkinAnalyze ==
    /\ pc = "fetch"
    /\ \E u \in GatewayOutcomes :
        Settle("skin-analyze", u, SkinAnalyzeCatch(req, SkinAnalyzeAfterFetch(req, u)))

ServeScanMedicine ==
    /\ pc = "idle"
    /\ \E r \in Requests(MedicineBodies) :
        Begin("scan-medicine", r, ScanMedicine(r, env))
SettleScanMedicine ==
    /\ pc = "fetch"
    /\ \E u \in GatewayOutcomes :
        Settle("scan-medicine", u, ScanMedicineCatch(req, ScanMedicineAfterFetch(req, u)))

ServeExplainDiagnosis ==
    /\ pc = "idle"
    /\ \E r \in Requests(ExplainBodies) :
        Begin("explain-diagnosis", r, ExplainDiagnosis(r, env))
SettleExplainDiagnosis ==
    /\ pc = "fetch"
    /\ \E u \in GatewayOutcomes :
        Settle("explain-diagnosis", u,
               ExplainDiagnosisCatch(req, ExplainDiagnosisAfterFetch(req, u)))

ServeFindDoctorsNpi ==
    /\ pc = "idle"
    /\ \E r \in Requests(NpiBodies) :
        Begin("find-doctors-npi", r, FindDoctorsNpi(r, env))
SettleFindDoctorsNpi ==
    /\ pc = "fetch"
    /\ \E u \in NpiOutcomes :
        Settle("find-doctors-npi", u,
               FindDoctorsNpiCatch(req, FindDoctorsNpiAfterFetch(req, u)))

ServeFindDoctorsApify ==
    /\ pc = "idle"
    /\ \E r \in Requests(ApifyBodies) :
        Begin("find-doctors-apify", r, FindDoctorsApify(r, env))
SettleFindDoctorsApify ==
    /\ pc = "fetch"
    /\ \E u \in ApifyOutcomes :
        Settle("find-doctors-apify", u,
               FindDoctorsApifyCatch(req, FindDoctorsApifyAfterFetch(req, u)))

\* the response has been sent; the next request finds a fresh handler run
MaxServed == 2

NextRequest ==
    /\ pc = "done"
    /\ served < MaxServed
    /\ served' = served + 1
    /\ pc' = "idle"
    /\ handler' = "none"
    /\ req' = NoRequest
    /\ upstream' = NoUpstream
    /\ outbound' = 0
    /\ call' = NoCall
    /\ responses' = <<>>
    /\ UNCHANGED env
    /\ OnlyHandlers

InitHandlers ==
    /\ env \in Envs
    /\ handler = "none"
    /\ req = NoRequest
    /\ pc = "idle"
    /\ outbound = 0
    /\ upstream = NoUpstream
    /\ responses = <<>>
    /\ served = 0
    /\ call = NoCall

(***************************************************************************)
(* CustomerCare.  The chat transcript (messages) and isOpen only feed the  *)
(* rendering and are left out; a timer that only adds a bot message has no *)
(* effect on the state kept here and is not tracked.                       *)
(***************************************************************************)
MaxInvokes == 2      \* send-customer-email invocations made in one run
MaxTimers == 2       \* pending timers of one kind

\* what the user can type into the message box and into the email box
Inputs == {"", " ", "hello", "login issue"}
Emails == {"", "nobody", "user@example.com"}

\* lowerMessage.includes("report") || ... || includes("error")
WantsToReport(message) == message = "login issue"

\* email.includes("@")
IncludesAt(email) == email = "user@example.com"

\* report and delivered are history: the ordinal of the issue description
\* submitted last, and the ordinals whose invocation has succeeded
InitCare ==
    /\ care = [isReportingIssue |-> FALSE, reportedIssue |-> "", email |-> "",
               isSending |-> FALSE, input |-> "", report |-> 0, delivered |-> {}]
    /\ timers = [startReport |-> 0, reset |-> 0]
    /\ invokes = {}
    /\ sent = <<>>

\* which of the two input areas is rendered
EmailFormShown == care.isReportingIssue /\ care.reportedIssue # ""

\* onChange of the textarea
SetInput ==
    /\ OnlyCare
    /\ ~EmailFormShown
    /\ \E text \in Inputs : care' = [care EXCEPT !.input = text]
    /\ UNCHANGED <<timers, invokes, sent>>

\* onChange of the email input (disabled while sending)
SetEmail ==
    /\ OnlyCare
    /\ EmailFormShown
    /\ ~care.isSending
    /\ \E e \in Emails : care' = [care EXCEPT !.email = e]
    /\ UNCHANGED <<timers, invokes, sent>>

\* Send button / Enter while not reporting an issue
handleSend ==
    /\ OnlyCare
    /\ ~EmailFormShown
    /\ ~care.isReportingIssue
    /\ IF Trim(care.input) = ""
       THEN UNCHANGED <<care, timers>>
       ELSE /\ care' = [care EXCEPT !.input = ""]
            /\ IF WantsToReport(Trim(care.input))
               THEN /\ timers.startReport < MaxTimers
                    /\ timers' = [timers EXCEPT !.startReport = @ + 1]
               ELSE UNCHANGED timers
    /\ UNCHANGED <<invokes, sent>>

\* Send button / Enter while reporting an issue
handleIssueSubmit ==
    /\ OnlyCare
    /\ ~EmailFormShown
    /\ care.isReportingIssue
    /\ IF Trim(care.input) = ""
       THEN UNCHANGED care
       ELSE care' = [care EXCEPT !.reportedIssue = Trim(care.input), !.input = "",
                                 !.report = @ + 1]
    /\ UNCHANGED <<timers, invokes, sent>>

\* Send button / Enter in the email form, up to the await
handleEmailSubmit ==
    /\ OnlyCare
    /\ EmailFormShown
    /\ ~care.isSending
    /\ IF Trim(care.email) = "" \/ ~IncludesAt(care.email)
       THEN UNCHANGED <<care, invokes, sent>>
       ELSE /\ Len(sent) < MaxInvokes
            /\ care' = [care EXCEPT !.isSending = TRUE]
            /\ invokes' = invokes \cup
                    {[id |-> Len(sent) + 1, email |-> Trim(care.email),
                      issue |-> care.reportedIssue, report |-> care.report]}
            /\ sent' = Append(sent, care.reportedIssue)
    /\ UNCHANGED timers

\* supabase.functions.invoke settles: the rest of handleEmailSubmit
InvokeSettles ==
    \E i \in invokes, ok \in BOOLEAN :
        /\ OnlyCare
        /\ invokes' = invokes \ {i}
        /\ care' = [care EXCEPT !.isSending = FALSE,
                                !.delivered = IF ok THEN @ \cup {i.report} ELSE @]
        /\ IF ok
           THEN /\ timers.reset < MaxTimers
                /\ timers' = [timers EXCEPT !.reset = @ + 1]
           ELSE UNCHANGED timers
        /\ UNCHANGED sent

\* setTimeout callback of handleSend
StartReportTimer ==
    /\ OnlyCare
    /\ timers.startReport > 0
    /\ timers' = [timers EXCEPT !.startReport = @ - 1]
    /\ care' = [care EXCEPT !.isReportingIssue = TRUE]
    /\ UNCHANGED <<invokes, sent>>

\* setTimeout callback of handleEmailSubmit
ResetTimer ==
    /\ OnlyCare
    /\ timers.reset > 0
    /\ timers' = [timers EXCEPT !.reset = @ - 1]
    /\ care' = [care EXCEPT !.isReportingIssue = FALSE, !.reportedIssue = "", !.email = ""]
    /\ UNCHANGED <<invokes, sent>>

(***************************************************************************)
(* SkinAnalyzer (the two-step component: ML prediction, then explanation). *)
(* Each handleAnalyze call that has got past its guards is a run; a run    *)
(* has exactly one request outstanding: the prediction call (stage         *)
(* "predict") or the explain-diagnosis call (stage "explain").  The Q&A    *)
(* Q&A follows the analysis actions; showSettings is left out.             *)
(***************************************************************************)
MaxRuns == 2                 \* handleAnalyze calls awaiting a response at once
CONFIDENCE_THRESHOLD == 60

Images == {"img1", "img2"}
SymptomTexts == {"", " ", "itchy rash"}
BackendUrls == {"", "http://localhost:5000", "https://ml.example.com"}
NoImage == "null"
\* image, run and requested are history: the image and the run a result came
\* from, and whether its run went on to ask for an explanation
NoResult ==
    [prediction |-> Null, explanation |-> Null, image |-> NoImage, run |-> 0,
     requested |-> FALSE]

\* what the ML backend can answer: a failure, or a prediction
Predictions ==
    {[disease |-> "Eczema", confidence |-> 60], [disease |-> "Unknown", confidence |-> 59]}

\* window.location.protocol === "https:" && API_URL.startsWith("http://")
MixedContent(httpsApp, url) == httpsApp /\ url = "http://localhost:5000"

InitSkin ==
    /\ \E https \in BOOLEAN :
        skin = [image |-> NoImage, symptoms |-> "", backendUrl |-> "",
                isAnalyzing |-> FALSE, isLoadingExplanation |-> FALSE,
                hasResult |-> FALSE, result |-> NoResult, error |-> Null,
                httpsApp |-> https,
                question |-> "", qaMessages |-> <<>>, isAskingQuestion |-> FALSE,
                asked |-> 0]
    /\ runs = {}
    /\ asks = {}

FreeRunIds == (1..MaxRuns) \ {r.id : r \in runs}

\* handleImageChange (file input, shown while there is no preview) and handleDrop
ChooseImage ==
    /\ page = "/"
    /\ UNCHANGED <<med, medRuns, page, asks>>
    /\ OnlyBrowser
    /\ \E i \in Images :
        skin' = [skin EXCEPT !.image = i, !.hasResult = FALSE, !.result = NoResult,
                             !.error = Null, !.qaMessages = <<>>]
    /\ UNCHANGED runs

clearImage ==
    /\ page = "/"
    /\ UNCHANGED <<med, medRuns, page, asks>>
    /\ OnlyBrowser
    /\ skin.image # NoImage
    /\ skin' = [skin EXCEPT !.image = NoImage, !.hasResult = FALSE, !.result = NoResult,
                            !.error = Null, !.qaMessages = <<>>]
    /\ UNCHANGED runs

SetSymptoms ==
    /\ page = "/"
    /\ UNCHANGED <<med, medRuns, page, asks>>
    /\ OnlyBrowser
    /\ \E text \in SymptomTexts : skin' = [skin EXCEPT !.symptoms = text]
    /\ UNCHANGED runs

handleBackendUrlChange ==
    /\ page = "/"
    /\ UNCHANGED <<med, medRuns, page, asks>>
    /\ OnlyBrowser
    /\ \E url \in BackendUrls : skin' = [skin EXCEPT !.backendUrl = url]
    /\ UNCHANGED runs

\* disabled={!image || !symptoms.trim() || isAnalyzing}
AnalyzeEnabled ==
    skin.image # NoImage /\ Trim(skin.symptoms) # "" /\ ~skin.isAnalyzing

\* the Analyze button: handleAnalyze up to its first await
handleAnalyze ==
    /\ page = "/"
    /\ UNCHANGED <<med, medRuns, page, asks>>
    /\ OnlyBrowser
    /\ AnalyzeEnabled
    /\ IF Trim(skin.backendUrl) = ""
       THEN UNCHANGED <<skin, runs>>
       ELSE IF MixedContent(skin.httpsApp, skin.backendUrl)
       THEN \* getMLPrediction throws before its fetch: the catch block
            /\ skin' = [skin EXCEPT !.isAnalyzing = FALSE, !.isLoadingExplanation = FALSE,
                                    !.hasResult = FALSE, !.result = NoResult,
                                    !.qaMessages = <<>>,
                                    !.error = Str("This site is HTTPS")]
            /\ UNCHANGED runs
       ELSE /\ FreeRunIds # {}
            /\ skin' = [skin EXCEPT !.isAnalyzing = TRUE, !.error = Null,
                                    !.hasResult = FALSE, !.result = NoResult,
                                    !.qaMessages = <<>>]
            /\ runs' = runs \cup
                    {[id |-> CHOOSE n \in FreeRunIds : \A m \in FreeRunIds : n <= m,
                      stage |-> "predict", image |-> skin.image,
                      prediction |-> Null]}

\* a variant with a demo fallback: the failure is reported and a made-up
\* result is shown
PredictionFailsWithDemoResult ==
    /\ page = "/"
    /\ UNCHANGED <<med, medRuns, page, asks>>
    /\ OnlyBrowser
    /\ \E r \in runs :
        /\ r.stage = "predict"
        /\ runs' = runs \ {r}
        /\ skin' = [skin EXCEPT !.error = Str("ML prediction failed"),
                                !.hasResult = TRUE,
                                !.result = [prediction |-> [disease |-> "Eczema",
                                                            confidence |-> 60],
                                            explanation |-> Null,
                                            image |-> r.image, run |-> r.id,
                                            requested |-> FALSE],
                                !.isAnalyzing = FALSE, !.isLoadingExplanation = FALSE]

\* a variant that asks for an explanation whatever the confidence is
PredictionArrivesAlwaysExplains ==
    /\ page = "/"
    /\ UNCHANGED <<med, medRuns, page, asks>>
    /\ OnlyBrowser
    /\ \E r \in runs, p \in Predictions :
        /\ r.stage = "predict"
        /\ skin' = [skin EXCEPT !.hasResult = TRUE,
                        !.result = [prediction |-> p, explanation |-> Null,
                                    image |-> r.image, run |-> r.id,
                                    requested |-> TRUE],
                        !.isAnalyzing = FALSE, !.isLoadingExplanation = TRUE]
        /\ runs' = (runs \ {r}) \cup
                {[r EXCEPT !.stage = "explain", !.prediction = p]}

\* the prediction call fails (network, non-OK status, unusable body): catch block
PredictionFails ==
    /\ page = "/"
    /\ UNCHANGED <<med, medRuns, page, asks>>
    /\ OnlyBrowser
    /\ \E r \in runs :
        /\ r.stage = "predict"
        /\ runs' = runs \ {r}
        /\ skin' = [skin EXCEPT !.error = Str("ML prediction failed"),
                                !.isAnalyzing = FALSE, !.isLoadingExplanation = FALSE]

\* the prediction call returns: the result is shown; at or above the threshold
\* explain-diagnosis is invoked
PredictionArrives ==
    /\ page = "/"
    /\ UNCHANGED <<med, medRuns, page, asks>>
    /\ OnlyBrowser
    /\ \E r \in runs, p \in Predictions :
        /\ r.stage = "predict"
        /\ IF p.confidence < CONFIDENCE_THRESHOLD
           THEN /\ skin' = [skin EXCEPT !.hasResult = TRUE,
                                !.result = [prediction |-> p, explanation |-> Null,
                                            image |-> r.image, run |-> r.id,
                                            requested |-> FALSE],
                                !.isAnalyzing = FALSE]
                /\ runs' = runs \ {r}
           ELSE /\ skin' = [skin EXCEPT !.hasResult = TRUE,
                                !.result = [prediction |-> p, explanation |-> Null,
                                            image |-> r.image, run |-> r.id,
                                            requested |-> TRUE],
                                !.isAnalyzing = FALSE, !.isLoadingExplanation = TRUE]
                /\ runs' = (runs \ {r}) \cup
                        {[r EXCEPT !.stage = "explain", !.prediction = p]}

\* getGeminiExplanation settles (null on any error):
\* setResult(prev => prev ? { ...prev, explanation } : null)
ExplanationSettles ==
    /\ page = "/"
    /\ UNCHANGED <<med, medRuns, page, asks>>
    /\ OnlyBrowser
    /\ \E r \in runs, ok \in BOOLEAN :
        /\ r.stage = "explain"
        /\ runs' = runs \ {r}
        /\ LET explanation ==
                 IF ok THEN [text |-> "about " \o r.prediction.disease, run |-> r.id]
                 ELSE Null
           IN skin' = [skin EXCEPT
                        !.result = IF skin.hasResult
                                   THEN [skin.result EXCEPT !.explanation = explanation]
                                   ELSE NoResult,
                        !.isLoadingExplanation = FALSE]

(***************************************************************************)
(* SkinAnalyzer Q&A.  Every question gets an ordinal (asked) that its      *)
(* messages carry, so that an answer can be told from the answer to        *)
(* another question with the same text.                                    *)
(***************************************************************************)
MaxAsks == 2                 \* questions asked in one behaviour

Questions == {"", " ", "is it contagious?"}

\* error ? ... : result ? ... ; the Q&A card:
\* result.prediction.confidence >= CONFIDENCE_THRESHOLD && (...)
QaShown ==
    /\ skin.error = Null
    /\ skin.hasResult
    /\ skin.result.prediction.confidence >= CONFIDENCE_THRESHOLD

\* the question input: disabled={isAskingQuestion}
SetQuestion ==
    /\ page = "/"
    /\ UNCHANGED <<med, medRuns, page>>
    /\ OnlyBrowser
    /\ QaShown
    /\ ~skin.isAskingQuestion
    /\ \E q \in Questions : skin' = [skin EXCEPT !.question = q]
    /\ UNCHANGED <<runs, asks>>

\* the Ask button (disabled={!question.trim() || isAskingQuestion}) or Enter:
\* askQuestion up to its await
askQuestion ==
    /\ page = "/"
    /\ UNCHANGED <<med, medRuns, page>>
    /\ OnlyBrowser
    /\ QaShown
    /\ ~skin.isAskingQuestion
    /\ Trim(skin.question) # ""
    /\ skin.asked < MaxAsks
    /\ LET n == skin.asked + 1
           userQuestion == Trim(skin.question)
       IN /\ skin' = [skin EXCEPT
                       !.question = "",
                       !.qaMessages = Append(@, [role |-> "user",
                                                 content |-> userQuestion,
                                                 ask |-> n]),
                       !.isAskingQuestion = TRUE,
                       !.asked = n]
          /\ asks' = asks \cup {[ask |-> n, question |-> userQuestion,
                                 disease |-> skin.result.prediction.disease,
                                 confidence |-> skin.result.prediction.confidence]}
    /\ UNCHANGED runs

\* the invocation settles: the answer, the default text when data has no
\* answer, or the apology of the catch block; finally setIsAskingQuestion(false)
AnswerArrives ==
    /\ page = "/"
    /\ UNCHANGED <<med, medRuns, page>>
    /\ OnlyBrowser
    /\ \E a \in asks, outcome \in {"answer", "no answer", "error"} :
        /\ asks' = asks \ {a}
        /\ skin' = [skin EXCEPT
                     !.qaMessages = Append(@,
                        [role |-> "assistant",
                         content |->
                            CASE outcome = "answer" -> "answer to " \o a.question
                              [] outcome = "no answer" ->
                                    "I couldn't generate an answer. Please try again."
                              [] outcome = "error" ->
                                    "Sorry, I couldn't answer that question. Please try again.",
                         ask |-> a.ask]),
                     !.isAskingQuestion = FALSE]
    /\ UNCHANGED runs

(***************************************************************************)
(* MedicineScanner (setLanguage is left out: it only changes the payload). *)
(***************************************************************************)
MaxReads == 2        \* FileReaders still reading

Pages == {"/", "/medicine-scanner"}

InitMed ==
    /\ med = [image |-> NoImage, isAnalyzing |-> FALSE, result |-> Null,
              isCameraOpen |-> FALSE, reading |-> 0]
    /\ medRuns = {}

\* the file input (rendered while there is no image): reader.readAsDataURL
handleImageUpload ==
    /\ page = "/medicine-scanner"
    /\ UNCHANGED <<skin, runs, asks, page>>
    /\ OnlyBrowser
    /\ med.image = NoImage
    /\ med.reading < MaxReads
    /\ med' = [med EXCEPT !.reading = @ + 1]
    /\ UNCHANGED medRuns

\* reader.onloadend
ReaderLoadEnd ==
    /\ page = "/medicine-scanner"
    /\ UNCHANGED <<skin, runs, asks, page>>
    /\ OnlyBrowser
    /\ med.reading > 0
    /\ \E i \in Images : med' = [med EXCEPT !.reading = @ - 1, !.image = i, !.result = Null]
    /\ UNCHANGED medRuns

\* Click Photo (rendered while there is no image)
openCamera ==
    /\ page = "/medicine-scanner"
    /\ UNCHANGED <<skin, runs, asks, page>>
    /\ OnlyBrowser
    /\ med.image = NoImage
    /\ med' = [med EXCEPT !.isCameraOpen = TRUE]
    /\ UNCHANGED medRuns

closeCamera ==
    /\ page = "/medicine-scanner"
    /\ UNCHANGED <<skin, runs, asks, page>>
    /\ OnlyBrowser
    /\ med.isCameraOpen
    /\ med' = [med EXCEPT !.isCameraOpen = FALSE]
    /\ UNCHANGED medRuns

capturePhoto ==
    /\ page = "/medicine-scanner"
    /\ UNCHANGED <<skin, runs, asks, page>>
    /\ OnlyBrowser
    /\ med.isCameraOpen
    /\ \E i \in Images :
        med' = [med EXCEPT !.image = i, !.result = Null, !.isCameraOpen = FALSE]
    /\ UNCHANGED medRuns

\* Upload Different Image
resetScanner ==
    /\ page = "/medicine-scanner"
    /\ UNCHANGED <<skin, runs, asks, page>>
    /\ OnlyBrowser
    /\ med.image # NoImage
    /\ med' = [med EXCEPT !.image = NoImage, !.result = Null]
    /\ UNCHANGED medRuns

\* Analyze Medicine (rendered with the image, disabled={isAnalyzing})
analyzeMedicine ==
    /\ page = "/medicine-scanner"
    /\ UNCHANGED <<skin, runs, asks, page>>
    /\ OnlyBrowser
    /\ med.image # NoImage
    /\ ~med.isAnalyzing
    /\ med' = [med EXCEPT !.isAnalyzing = TRUE, !.result = Null]
    /\ Cardinality(medRuns) < MaxRuns
    /\ medRuns' = medRuns \cup
            {[id |-> CHOOSE n \in (1..MaxRuns) \ {r.id : r \in medRuns} : TRUE,
              image |-> med.image]}

\* supabase.functions.invoke("scan-medicine") settles
MedicineSettles ==
    /\ page = "/medicine-scanner"
    /\ UNCHANGED <<skin, runs, asks, page>>
    /\ OnlyBrowser
    /\ \E r \in medRuns, data \in {Null, Str("Paracetamol 500mg")} :
        /\ medRuns' = medRuns \ {r}
        /\ med' = [med EXCEPT !.isAnalyzing = FALSE,
                              !.result = IF Truthy(data) THEN data ELSE med.result]

(***************************************************************************)
(* Upstream records given to the doctor formatters: every subset of a      *)
(* record's members may be missing.                                        *)
(***************************************************************************)
Restrict(f, keys) == [k \in keys |-> f[k]]

FullPlace ==
    ("title" :> Str("Skin Clinic"))
    @@ ("address" :> Str("MG Road"))
    @@ ("city" :> Str("Pune"))
    @@ ("phone" :> Str("+91 20 5550 1000"))
    @@ ("url" :> Str("https://maps.google.com/?cid=1"))
    @@ ("placeId" :> Str("ChIJ1"))
    @@ ("totalScore" :> Num(4))
    @@ ("reviewsCount" :> Num(12))
    @@ ("openingHours" :> Str("9-17"))
    @@ ("location" :> Obj(("lat" :> Str("18.52")) @@ ("lng" :> Str("73.85"))))

ApifyPlaces == {Obj(Restrict(FullPlace, keys)) : keys \in SUBSET DOMAIN FullPlace}

FullAddress ==
    ("address_purpose" :> Str("LOCATION"))
    @@ ("address_1" :> Str("1 Main St"))
    @@ ("city" :> Str("New York"))
    @@ ("state" :> Str("NY"))
    @@ ("postal_code" :> Str("100011234"))
    @@ ("telephone_number" :> Str("2125550100"))

FullBasic ==
    ("first_name" :> Str("Asha")) @@ ("last_name" :> Str("Rao")) @@ ("credential" :> Str("MD"))

NpiResults ==
    {Obj(<<>>), Obj("addresses" :> List(<<>>))}
    \cup {Obj(("basic" :> Obj(Restrict(FullBasic, b)))
              @@ ("addresses" :> List(<<Obj(Restrict(FullAddress, a))>>))
              @@ ("taxonomies" :> List(<<Obj("desc" :> Str("Dermatology, MOHS"))>>))) :
            b \in SUBSET DOMAIN FullBasic, a \in SUBSET DOMAIN FullAddress}

NoPlace == [formatter |-> "none", record |-> Undef, city |-> Undef]
NoDoctor == [t |-> "none"]

Formatters == {"apify", "apify-v2", "npi", "doctor-finder"}

\* the records a formatter can be given
DoctorInputs ==
    {[formatter |-> f, record |-> p, city |-> c] :
        f \in {"apify", "apify-v2"}, p \in ApifyPlaces, c \in {Undef, Str("Pune")}}
    \cup {[formatter |-> f, record |-> p, city |-> Undef] :
        f \in {"npi", "doctor-finder"}, p \in NpiResults}

\* find-doctors (Apify), first revision, formats one place
FormatApify ==
    /\ place.formatter = "apify"
    /\ doctor = NoDoctor
    /\ doctor' = JSONstringify(ApifyDoctor(place.record, place.city))
    /\ UNCHANGED place
    /\ OnlyDoctors

\* find-doctors (Apify), second revision
FormatApifyV2 ==
    /\ place.formatter = "apify-v2"
    /\ doctor = NoDoctor
    /\ doctor' = JSONstringify(ApifyDoctorV2(place.record, place.city))
    /\ UNCHANGED place
    /\ OnlyDoctors

\* find-doctors (NPI) formats one provider
FormatNpi ==
    /\ place.formatter = "npi"
    /\ doctor = NoDoctor
    /\ doctor' = JSONstringify(NpiDoctor(place.record))
    /\ UNCHANGED place
    /\ OnlyDoctors

\* DoctorFinder formats one provider in the browser
FormatDoctorFinder ==
    /\ place.formatter = "doctor-finder"
    /\ doctor = NoDoctor
    /\ doctor' = DoctorFinderDoctor(place.record)
    /\ UNCHANGED place
    /\ OnlyDoctors

(***************************************************************************)
(* Specifications: each starts its own component from its initial state    *)
(* and the other components idle.                                          *)
(***************************************************************************)
IdleHandlers ==
    /\ env = [k \in KeyNames |-> Str("secret")]
    /\ handler = "none"
    /\ req = NoRequest
    /\ pc = "idle"
    /\ outbound = 0
    /\ upstream = NoUpstream
    /\ responses = <<>>
    /\ served = 0
    /\ call = NoCall

IdleBrowser == page = "/" /\ InitSkin /\ InitMed

IdleDoctors == place = NoPlace /\ doctor = NoDoctor

InitBrowser == page \in Pages /\ InitSkin /\ InitMed

InitQA ==
    /\ page = "/"
    /\ skin = [image |-> NoImage, symptoms |-> "itchy rash",
               backendUrl |-> "https://ml.example.com",
               isAnalyzing |-> FALSE, isLoadingExplanation |-> FALSE,
               hasResult |-> FALSE, result |-> NoResult, error |-> Null,
               httpsApp |-> TRUE,
               question |-> "", qaMessages |-> <<>>, isAskingQuestion |-> FALSE,
               asked |-> 0]
    /\ runs = {}
    /\ asks = {}
    /\ InitMed

InitDoctors == place \in DoctorInputs /\ doctor = NoDoctor

Init == InitHandlers /\ InitCare /\ InitBrowser /\ IdleDoctors

NextHandlers ==
    \/ ServeSendCustomerEmail
    \/ SettleSendCustomerEmail
    \/ ServeSkinAnalyze
    \/ SettleSkinAnalyze
    \/ ServeScanMedicine
    \/ SettleScanMedicine
    \/ ServeExplainDiagnosis
    \/ SettleExplainDiagnosis
    \/ ServeFindDoctorsNpi
    \/ SettleFindDoctorsNpi
    \/ ServeFindDoctorsApify
    \/ SettleFindDoctorsApify
    \/ NextRequest

NextCare ==
    \/ SetInput
    \/ SetEmail
    \/ handleSend
    \/ handleIssueSubmit
    \/ handleEmailSubmit
    \/ InvokeSettles
    \/ StartReportTimer
    \/ ResetTimer

NextBrowser ==
    \/ ChooseImage
    \/ clearImage
    \/ SetSymptoms
    \/ handleBackendUrlChange
    \/ handleAnalyze
    \/ PredictionFails
    \/ PredictionArrives
    \/ ExplanationSettles
    \/ handleImageUpload
    \/ ReaderLoadEnd
    \/ openCamera
    \/ closeCamera
    \/ capturePhoto
    \/ resetScanner
    \/ analyzeMedicine
    \/ MedicineSettles

\* SkinAnalyzer with its Q&A, the symptoms and the backend URL entered
NextQA ==
    \/ ChooseImage
    \/ clearImage
    \/ handleAnalyze
    \/ PredictionFails
    \/ PredictionArrives
    \/ ExplanationSettles
    \/ SetQuestion
    \/ askQuestion
    \/ AnswerArrives

NextDoctors ==
    \/ FormatApify
    \/ FormatApifyV2
    \/ FormatNpi
    \/ FormatDoctorFinder

Next == NextHandlers \/ NextCare \/ NextBrowser \/ NextQA \/ NextDoctors

StartHandlers == InitHandlers /\ InitCare /\ IdleBrowser /\ IdleDoctors
StartCare == IdleHandlers /\ InitCare /\ IdleBrowser /\ IdleDoctors
StartBrowser == IdleHandlers /\ InitCare /\ InitBrowser /\ IdleDoctors
StartQA == IdleHandlers /\ InitCare /\ InitQA /\ IdleDoctors
StartDoctors == IdleHandlers /\ InitCare /\ IdleBrowser /\ InitDoctors

SpecHandlers == StartHandlers /\ [][NextHandlers]_vars
SpecCare == StartCare /\ [][NextCare]_vars
SpecBrowser == StartBrowser /\ [][NextBrowser]_vars
SpecQA == StartQA /\ [][NextQA]_vars
SpecDoctors == StartDoctors /\ [][NextDoctors]_vars
Spec == Init /\ [][Next]_vars

(***************************************************************************)
(* Properties of the handlers (SpecHandlers)                               *)
(***************************************************************************)
Answered == pc = "done" /\ Len(responses) > 0
Response == responses[1]
AiHandlers == {"skin-analyze", "scan-medicine", "explain-diagnosis"}

\* the required input of each handler, as the specification lists it
MissingInput(h, r) ==
    CASE h = "send-customer-email" ->
            ~Truthy(Get(r.body, "email")) \/ ~Truthy(Get(r.body, "issue"))
      [] h = "skin-analyze" ->
            \/ Get(r.body, "file").t # "File"
            \/ Get(r.body, "symptoms").t # "string"
            \/ Trim(Get(r.body, "symptoms").v) = ""
      [] h = "scan-medicine" -> ~Truthy(Get(r.body, "image"))
      [] h = "explain-diagnosis" -> ~Truthy(Get(r.body, "disease"))
      [] h = "find-doctors-npi" ->
            ~Truthy(Get(r.body, "zipCode")) /\ ~Truthy(Get(r.body, "city"))
      [] h = "find-doctors-apify" ->
            ~Truthy(Get(r.body, "pinCode")) /\ ~Truthy(Get(r.body, "city"))
      [] OTHER -> FALSE

\* the API key a handler needs is configured (find-doctors-npi needs none)
KeyConfigured(h, e) ==
    CASE h = "send-customer-email" -> Truthy(e["RESEND_API_KEY"])
      [] h \in AiHandlers -> Truthy(e["LOVABLE_API_KEY"])
      [] h = "find-doctors-apify" -> Truthy(e["APIFY_API_KEY"])
      [] OTHER -> TRUE

\* C1: every response with a non-2xx status, on every failure path, has a
\* JSON object body with an `error` member.
C1_ErrorBodyOnFailure ==
    \A i \in 1..Len(responses) :
        ~Ok(responses[i].status) =>
            /\ responses[i].body.t = "object"
            /\ "error" \in DOMAIN responses[i].body.v

\* C1 witness: a request whose body could not be parsed was answered 500
C1_Witness ==
    /\ Answered
    /\ handler = "send-customer-email"
    /\ req.method = "POST" /\ ~req.bodyOk
    /\ Response.status = 500
    /\ "error" \in DOMAIN Response.body.v

\* C2 (as claimed): a POST whose required input is missing is answered 400,
\* whatever the API-key configuration is.
C2_MissingInputAnswered400 ==
    (Answered /\ req.method = "POST" /\ req.bodyOk /\ MissingInput(handler, req))
        => Response.status = 400

\* C3 (as claimed): the AI handlers answer an upstream 429 with 429, an
\* upstream 402 with 402 and any other non-OK upstream status with 500 or 502.
C3_UpstreamStatusMapped ==
    (Answered /\ handler \in AiHandlers /\ upstream.net = "ok" /\ ~Ok(upstream.status))
        => CASE upstream.status = 429 -> Response.status = 429
             [] upstream.status = 402 -> Response.status = 402
             [] OTHER -> Response.status \in {500, 502}

\* C4 (as claimed): a request whose required fields are missing, or whose
\* handler's API key is not configured, never causes an outbound call.
C4_NoFetchBeforeGuard ==
    (pc # "idle" /\ (MissingInput(handler, req) \/ ~KeyConfigured(handler, env)))
        => outbound = 0

\* C5: per request at most one outbound call and exactly one response; a
\* failed or non-OK call is not re-issued; a preflight makes no call.
C5_OneFetchOneResponse ==
    /\ outbound <= 1
    /\ Len(responses) = (IF pc = "done" THEN 1 ELSE 0)
    /\ (pc = "fetch" => outbound = 1)
    /\ (req.method = "OPTIONS" => outbound = 0)

\* C5 witness: a request was answered after its one call came back non-OK
C5_Witness ==
    /\ Answered
    /\ outbound = 1
    /\ upstream.net = "ok" /\ ~Ok(upstream.status)
    /\ Len(responses) = 1

\* C6 (as claimed): every response has a status in {200,400,402,429,500,502}.
C6_StatusInClaimedSet ==
    \A i \in 1..Len(responses) :
        responses[i].status \in {200, 400, 402, 429, 500, 502}

\* C6 amended: every response has a status in {200,400,402,405,429,500,502};
\* 405 is the answer of skin-analyze and explain-diagnosis to a method that
\* is neither POST nor OPTIONS, and of no other handler.
C6_StatusInSet ==
    \A i \in 1..Len(responses) :
        /\ responses[i].status \in {200, 400, 402, 405, 429, 500, 502}
        /\ responses[i].status = 405 <=>
              (handler \in {"skin-analyze", "explain-diagnosis"}
               /\ req.method \notin {"POST", "OPTIONS"})

\* C6 witness: explain-diagnosis answered a PUT with 405
C6_Witness ==
    /\ Answered
    /\ handler = "explain-diagnosis"
    /\ req.method = "PUT"
    /\ Response.status = 405

\* C7: every response (preflight, success, validation error, upstream error,
\* caught exception) carries Access-Control-Allow-Origin and
\* Access-Control-Allow-Headers.
C7_CorsOnEveryResponse ==
    \A i \in 1..Len(responses) :
        {"Access-Control-Allow-Origin", "Access-Control-Allow-Headers"}
            \subseteq DOMAIN responses[i].headers

\* C7 witness: skin-analyze answered from its catch block with the headers
C7_Witness ==
    /\ Answered
    /\ handler = "skin-analyze"
    /\ upstream.net = "fail"
    /\ Response.status = 500
    /\ "Access-Control-Allow-Origin" \in DOMAIN Response.headers
    /\ Response.headers["Access-Control-Allow-Origin"] = "https://medibot.app"

\* what a handler makes of a request, given the keys and the upstream
\* outcome and nothing else
FirstStep(h, r, e) ==
    CASE h = "send-customer-email" -> SendCustomerEmail(r, e)
      [] h = "skin-analyze" -> SkinAnalyze(r, e)
      [] h = "scan-medicine" -> ScanMedicine(r, e)
      [] h = "explain-diagnosis" -> ExplainDiagnosis(r, e)
      [] h = "find-doctors-npi" -> FindDoctorsNpi(r, e)
      [] h = "find-doctors-apify" -> FindDoctorsApify(r, e)
SecondStep(h, r, u) ==
    CASE h = "send-customer-email" ->
            SendCustomerEmailCatch(r, SendCustomerEmailAfterFetch(r, u))
      [] h = "skin-analyze" -> SkinAnalyzeCatch(r, SkinAnalyzeAfterFetch(r, u))
      [] h = "scan-medicine" -> ScanMedicineCatch(r, ScanMedicineAfterFetch(r, u))
      [] h = "explain-diagnosis" ->
            ExplainDiagnosisCatch(r, ExplainDiagnosisAfterFetch(r, u))
      [] h = "find-doctors-npi" ->
            FindDoctorsNpiCatch(r, FindDoctorsNpiAfterFetch(r, u))
      [] h = "find-doctors-apify" ->
            FindDoctorsApifyCatch(r, FindDoctorsApifyAfterFetch(r, u))
ResponseTo(h, r, e, u) ==
    LET first == FirstStep(h, r, e)
        last == IF first.kind = "fetch" THEN SecondStep(h, r, u) ELSE first
    IN  [status |-> last.status, headers |-> last.headers, body |-> last.body]

GatewayContent == ContentOf(upstream.body)
GatewayGaveString ==
    /\ Answered /\ req.method = "POST" /\ outbound = 1
    /\ upstream.net = "ok" /\ Ok(upstream.status)
    /\ upstream.body # InvalidJson
    /\ GatewayContent.t = "string"

\* C18 (as claimed): when the gateway answers OK with content that is a
\* non-empty string that parses as JSON, skin-analyze answers 200 with the
\* parsed value, never 500.
C18_ParsedContentAnswered200 ==
    (/\ handler = "skin-analyze"
     /\ GatewayGaveString
     /\ GatewayContent.v # ""
     /\ JSONparse(GatewayContent.v) # InvalidJson)
        => Response.status = 200

\* the strings of the model that are numeric, with their numbers
NumericStrings == {"87"}
NumberOf(text) == IF text = "87" THEN Num(87) ELSE NaN

\* what the claim expects of the normalization
ExpectedAnalysis(parsed) ==
    LET c == Get(parsed, "confidence")
    IN  IF c.t = "string" /\ c.v \in NumericStrings
        THEN Obj([k \in DOMAIN parsed.v |->
                    IF k = "confidence" THEN NumberOf(c.v) ELSE parsed.v[k]])
        ELSE parsed

\* C19 (as claimed): on success skin-analyze returns the parsed value with
\* nothing added, removed or made up; only a confidence that is a numeric
\* string becomes that number, and any other confidence string stays.
C19_OnlyNumericConfidenceChanged ==
    (/\ handler = "skin-analyze"
     /\ GatewayGaveString
     /\ Response.status = 200)
        => Response.body = ExpectedAnalysis(JSONparse(GatewayContent.v))

\* the fallback object of explain-diagnosis
PlainExplanation(content) ==
    Obj(("explanation" :> content)
        @@ ("recommendations" :> List(<<>>))
        @@ ("causes" :> List(<<>>))
        @@ ("precautions" :> List(<<>>))
        @@ ("severity" :> Str("Unknown"))
        @@ ("suggestedDoctor" :> Str("Dermatologist")))
AsksForJsonObject ==
    Get(call.body, "response_format") = Obj("type" :> Str("json_object"))
HasQuestion == Truthy(Get(req.body, "question"))

\* C20 (as claimed): with a non-empty question and string content from the
\* gateway, explain-diagnosis answers 200 with exactly {answer: content} and
\* has not asked for a JSON object; without a question it has asked for one
\* and the body is never of the {answer} shape.
C20_AnswerModeAsClaimed ==
    (handler = "explain-diagnosis" /\ GatewayGaveString) =>
        IF HasQuestion
        THEN /\ Response.status = 200
             /\ Response.body = Obj("answer" :> GatewayContent)
             /\ ~AsksForJsonObject
        ELSE /\ AsksForJsonObject
             /\ ~(Response.body.t = "object" /\ DOMAIN Response.body.v = {"answer"})

\* C20 amended: with a non-empty question and non-empty string content the
\* answer is 200 with exactly {answer: content}, the content unparsed, and no
\* JSON object was asked for; empty content is answered 502 in both modes;
\* without a question a JSON object was asked for and the body is the value
\* parsed from the content, or the plain-explanation object, whatever its
\* shape.
C20_AnswerMode ==
    (handler = "explain-diagnosis" /\ GatewayGaveString) =>
        /\ HasQuestion <=> ~AsksForJsonObject
        /\ IF GatewayContent.v = ""
           THEN /\ Response.status = 502
                /\ "error" \in DOMAIN Response.body.v
           ELSE /\ Response.status = 200
                /\ Response.body =
                     IF HasQuestion THEN Obj("answer" :> GatewayContent)
                     ELSE IF JSONparse(GatewayContent.v) # InvalidJson
                     THEN JSONparse(GatewayContent.v)
                     ELSE PlainExplanation(GatewayContent)

\* C20 witness: a question was answered with content that is JSON text, and
\* the answer is that text, unparsed
C20_Witness ==
    /\ handler = "explain-diagnosis"
    /\ GatewayGaveString
    /\ HasQuestion
    /\ GatewayContent = Str("{\"explanation\":\"Eczema is ...\"}")
    /\ Response.status = 200
    /\ Response.body = Obj("answer" :> GatewayContent)
    /\ ~AsksForJsonObject

\* the explanation mode of explain-diagnosis got string content that is not
\* JSON text
PlainContentCase ==
    /\ handler = "explain-diagnosis"
    /\ GatewayGaveString
    /\ ~HasQuestion
    /\ JSONparse(GatewayContent.v) = InvalidJson

\* C21 (as claimed): in explanation mode (no question), gateway content that
\* is a string but not valid JSON is answered 200 with the plain-explanation
\* object: explanation the raw content, empty recommendations, causes and
\* precautions, severity "Unknown" and suggestedDoctor "Dermatologist".
C21_PlainContentAsClaimed ==
    PlainContentCase =>
        /\ Response.status = 200
        /\ Response.body = PlainExplanation(GatewayContent)

\* C21 amended: the same for content that is a non-empty string; the empty
\* string is answered 502 with an error body.
C21_PlainContent ==
    PlainContentCase =>
        IF GatewayContent.v = ""
        THEN /\ Response.status = 502
             /\ Response.body = Obj("error" :> Str("Invalid AI response"))
        ELSE /\ Response.status = 200
             /\ Response.body = PlainExplanation(GatewayContent)

\* C21 witness: plain prose from the gateway came back as the explanation
C21_Witness ==
    /\ PlainContentCase
    /\ GatewayContent = Str("It looks like eczema.")
    /\ Response.status = 200
    /\ Get(Response.body, "explanation") = Str("It looks like eczema.")
    /\ Get(Response.body, "recommendations") = List(<<>>)
    /\ Get(Response.body, "severity") = Str("Unknown")
    /\ Get(Response.body, "suggestedDoctor") = Str("Dermatologist")

(***************************************************************************)
(* Properties of the CustomerCare widget (SpecCare)                        *)
(***************************************************************************)
\* the phase of the issue-report flow that the widget's state stands for
Phase ==
    CASE ~care.isReportingIssue /\ care.reportedIssue = "" -> "browsing"
      [] care.isReportingIssue /\ care.reportedIssue = "" -> "reporting-issue"
      [] care.isReportingIssue /\ care.reportedIssue # "" -> "collecting-email"
      [] OTHER -> "undefined"

\* C8 (as claimed): the phase only moves browsing -> reporting-issue ->
\* collecting-email -> (sent) browsing, never skipping a phase or moving
\* backward, and send-customer-email is invoked only from collecting-email.
C8_PhasesInOrder ==
    [][ /\ \/ Phase' = Phase
           \/ Phase = "browsing" /\ Phase' = "reporting-issue"
           \/ Phase = "reporting-issue" /\ Phase' = "collecting-email"
           \/ Phase = "collecting-email" /\ Phase' = "browsing"
        /\ Len(sent') > Len(sent) => Phase = "collecting-email" ]_vars

\* C16 (as claimed): once an invocation of send-customer-email for an issue
\* description has succeeded, no further invocation carrying that issue is
\* started, also not in the 500 ms before the widget resets.
C16_DeliveredOnce ==
    \A i \in invokes : i.report \notin care.delivered

(***************************************************************************)
(* Properties of SkinAnalyzer and MedicineScanner (SpecBrowser)            *)
(***************************************************************************)
\* C9 (as claimed): while any request started by Analyze (prediction or
\* follow-up explanation) or by Analyze Medicine is in flight, the same
\* action has no second request in flight.
C9_OneRequestPerAction ==
    /\ Cardinality(runs) <= 1
    /\ Cardinality(medRuns) <= 1

\* C12 (as claimed): a result shown is the analysis of the image that is
\* selected now; in particular a result implies an image.
C12_ResultOfSelectedImage ==
    skin.hasResult => (skin.image # NoImage /\ skin.result.image = skin.image)

\* C13 (as claimed): an explanation shown was requested for the prediction
\* shown, in the same run of Analyze.
C13_ExplanationOfSameRun ==
    (skin.hasResult /\ skin.result.explanation # Null)
        => skin.result.explanation.run = skin.result.run

\* C14: error and result are never both set, and a failed analysis (the
\* prediction call failing, or the mixed-content refusal before it) leaves
\* error set and result null.
C14_NoResultOnFailure ==
    /\ [](~(skin.error # Null /\ skin.hasResult))
    /\ [][ (\/ PredictionFails
            \/ (handleAnalyze /\ Trim(skin.backendUrl) # ""
                /\ MixedContent(skin.httpsApp, skin.backendUrl)))
           => (skin'.error # Null /\ ~skin'.hasResult /\ skin'.result = NoResult)
       ]_vars

\* C14 witness: an analysis has failed while the explanation of an earlier
\* run was still awaited; the error is shown and no result
C14_Witness ==
    /\ skin.error = Str("ML prediction failed")
    /\ ~skin.hasResult
    /\ \E r \in runs : r.stage = "explain"

(***************************************************************************)
(* Properties of the SkinAnalyzer Q&A (SpecQA)                             *)
(***************************************************************************)
\* C15 (as claimed): the transcript alternates user, assistant, ..., starting
\* with a user message, and each assistant message answers the user message
\* right before it.
C15_TranscriptAlternates ==
    \A i \in 1..Len(skin.qaMessages) :
        IF i % 2 = 1
        THEN skin.qaMessages[i].role = "user"
        ELSE /\ skin.qaMessages[i].role = "assistant"
             /\ skin.qaMessages[i].ask = skin.qaMessages[i - 1].ask

DoctorFields ==
    IF place.formatter \in {"apify", "apify-v2"}
    THEN {"name", "specialty", "address", "city", "phone", "googleMapsLink",
          "rating", "reviewCount", "workingHours"}
    ELSE {"name", "specialty", "address", "city", "state", "zip", "phone"}
ApifyNullable ==
    {"phone", "googleMapsLink", "rating", "reviewCount", "workingHours"}
Omits(k) == Get(place.record, k) = Undef

\* C10 (as claimed): in every doctor record every field is present and none
\* is null: an omitted optional field appears as a placeholder string.
C10_NoNullOrAbsentField ==
    doctor # NoDoctor =>
        \A k \in DoctorFields :
            /\ k \in DOMAIN doctor.v
            /\ doctor.v[k].t \notin {"null", "undefined"}

\* C10 amended: every field of a doctor record is present; the records built
\* from the NPI registry (handler and DoctorFinder) hold only strings, and
\* the records built from the Apify scraper hold strings for name,
\* specialty, address and city and null for an omitted phone,
\* googleMapsLink, rating, reviewCount or workingHours.
C10_PlaceholderOrNull ==
    doctor # NoDoctor =>
        /\ DoctorFields \subseteq DOMAIN doctor.v
        /\ \A k \in DoctorFields :
              IF place.formatter \in {"apify", "apify-v2"} /\ k \in ApifyNullable
              THEN doctor.v[k] = Null \/ Truthy(doctor.v[k])
              ELSE doctor.v[k].t = "string"
        /\ place.formatter \in {"apify", "apify-v2"} =>
              /\ Omits("title") => doctor.v["name"] = Str("Unknown")
              /\ Omits("address") => doctor.v["address"] = Str("Address not available")
              /\ (Omits("city") /\ place.city = Undef) => doctor.v["city"] = Str("")
              /\ Omits("phone") <=> doctor.v["phone"] = Null
              /\ Omits("totalScore") <=> doctor.v["rating"] = Null
              /\ Omits("reviewsCount") <=> doctor.v["reviewCount"] = Null
              /\ Omits("openingHours") <=> doctor.v["workingHours"] = Null
              /\ (Omits("url") /\ Omits("placeId") /\ Omits("location"))
                    => doctor.v["googleMapsLink"] = Null
        /\ place.formatter \in {"npi", "doctor-finder"} =>
              /\ Omits("taxonomies") => doctor.v["specialty"] = Str("Dermatology")
              /\ Omits("addresses") =>
                    /\ doctor.v["address"] = Str("Address not available")
                    /\ doctor.v["city"] = Str("")
                    /\ doctor.v["state"] = Str("")
                    /\ doctor.v["zip"] = Str("")
                    /\ doctor.v["phone"] = Str("Not available")

\* C10 witness: a record built from a scraped place without name and phone
C10_Witness ==
    /\ doctor # NoDoctor
    /\ place.formatter = "apify"
    /\ Omits("title") /\ Omits("phone")
    /\ doctor.v["name"] = Str("Unknown")
    /\ doctor.v["phone"] = Null

====
